---------------------------- MODULE Spec2Model ----------------------------
(***************************************************************************)
(* A model of rdichev/Image-editor: the image-edit adapter                 *)
(* (src/services/geminiService.ts, editImageWithGemini) and the React      *)
(* shell that calls it (src/App.tsx, App).                                 *)
(*                                                                         *)
(* Representation of JavaScript values                                     *)
(*   - a string on which the code does character work (data URLs, mime     *)
(*     types, payloads) is the sequence of its characters;                 *)
(*   - a string the code only passes along or tests for emptiness          *)
(*     (prompts, error messages) is a TLA+ string;                         *)
(*   - a value that may be absent (undefined, null, a missing field) is a  *)
(*     sequence of length 0 (absent) or 1 (present): None and Some(x).     *)
(***************************************************************************)
EXTENDS Integers, Sequences, FiniteSets, Bags, TLC

VARIABLES
    image,        \* App state: [original, edited, mimeType], each absent or a string
    status,       \* App state: an EditStatus
    prompt,       \* App state: the textarea's text
    error,        \* App state: absent or the message shown
    zoomScale,    \* App state: the zoom slider, as the handlers below reset it
    readers,      \* bag of the files whose FileReader has not fired onload yet
    invocations,  \* bag of editImageWithGemini invocations awaiting generateContent
    observed,     \* AdapterSpec: the settled invocation and what generateContent gave it
    clicks,       \* the shell's enabled Refine Image / quick-action clicks so far
    started       \* the editImageWithGemini invocations processEdit started so far

vars == <<image, status, prompt, error, zoomScale, readers, invocations,
          observed, clicks, started>>

shellVars == <<image, status, prompt, error, zoomScale, readers, clicks, started>>

-----------------------------------------------------------------------------
(* Bounds of the model.                                                    *)

\* longest request.image string the adapter is called with in AdapterSpec
MaxLen == 3
\* longest parts list of a response
MaxParts == 3
\* enabled edit clicks in one run of the shell
MaxClicks == 2
\* file reads that may be pending at once
MaxReads == 1
\* longest parts list of a response to an invocation the shell made
MaxShellParts == 1

-----------------------------------------------------------------------------
(* JavaScript values.                                                      *)

None == <<>>
Some(x) == <<x>>

\* String(v) as a template literal applies it: an absent value prints as "undefined"
Stringify(v) == IF v = None THEN <<"u", "n", "d", "e", "f", "i", "n", "e", "d">> ELSE v[1]

\* s.split(sep): the pieces of s between the occurrences of the character sep
RECURSIVE Split(_, _)
Split(s, sep) ==
    IF \E i \in 1..Len(s) : s[i] = sep
    THEN LET i == CHOOSE k \in 1..Len(s) : s[k] = sep /\ \A j \in 1..(k - 1) : s[j] # sep
         IN  <<SubSeq(s, 1, i - 1)>> \o Split(SubSeq(s, i + 1, Len(s)), sep)
    ELSE <<s>>

\* arr[n] for a zero-based index n: undefined past the end
At(arr, n) == IF n + 1 <= Len(arr) THEN Some(arr[n + 1]) ELSE None

\* all sequences over S of length at most n
SeqsUpTo(S, n) == UNION {[1..k -> S] : k \in 0..n}

-----------------------------------------------------------------------------
(* editImageWithGemini: the request.                                       *)

ModelName == "gemini-2.5-flash-image"

\* the template literal of lines 9-14, trimmed
enhancedPrompt(request) ==
    "You are an expert product photo editor. User instruction: " \o request.instruction
    \o " Please modify the provided image according to the instruction while maintaining"
    \o " high-quality resolution and professional studio aesthetics."
    \o " If the user asks to remove background, ensure a clean professional cutout."

\* a part of a request or of a response: the fields it does not have are absent
Part(text, inlineData) == [text |-> text, inlineData |-> inlineData]

\* request.image.split(',')[1]
imageData(request) == At(Split(request.image, ","), 1)

imagePart(request) ==
    Part(None, Some([data |-> imageData(request), mimeType |-> Some(request.mimeType)]))

textPart(request) == Part(Some(enhancedPrompt(request)), None)

\* the argument of ai.models.generateContent
generateContentArgs(request) ==
    [model |-> ModelName, contents |-> [parts |-> <<imagePart(request), textPart(request)>>]]

-----------------------------------------------------------------------------
(* editImageWithGemini: what generateContent gives back.                   *)

\* what the awaited call ends with: a response, or a raised error
Responded(response) == [kind |-> "response", response |-> Some(response), error |-> None]
Raised(err) == [kind |-> "raise", response |-> None, error |-> Some(err)]

NoImageMessage == "No image was generated. Please try a different instruction."
NoImageDataMessage == "AI responded but no image data was found in the response."
FallbackMessage == "Failed to process image. Ensure your API key is valid."

firstCandidatePartsNonEmpty(response) ==
    IF response.candidates = None THEN None
    ELSE LET first == At(response.candidates[1], 0)
         IN  IF first = None THEN None
             ELSE IF first[1].content = None THEN None
             ELSE IF first[1].content[1].parts = Some(<<>>) THEN None
             ELSE first[1].content[1].parts

\* response.candidates?.[0]?.content?.parts
firstCandidateParts(response) ==
    IF response.candidates = None THEN None
    ELSE LET first == At(response.candidates[1], 0)
         IN  IF first = None THEN None
             ELSE IF first[1].content = None THEN None
             ELSE first[1].content[1].parts

\* `data:${part.inlineData.mimeType};base64,${part.inlineData.data}`
dataUrl(inlineData) ==
    <<"d", "a", "t", "a", ":">> \o Stringify(inlineData.mimeType)
    \o <<";", "b", "a", "s", "e", "6", "4", ",">> \o Stringify(inlineData.data)

RECURSIVE scanLast(_)
scanLast(parts) ==
    IF parts = <<>> THEN None
    ELSE IF parts[Len(parts)].inlineData # None
         THEN Some(dataUrl(parts[Len(parts)].inlineData[1]))
         ELSE scanLast(SubSeq(parts, 1, Len(parts) - 1))

\* the for loop of lines 38-42: the value returned, absent when the loop falls through
RECURSIVE scanParts(_)
scanParts(parts) ==
    IF parts = <<>> THEN None
    ELSE IF parts[1].inlineData # None
         THEN Some(dataUrl(parts[1].inlineData[1]))
         ELSE scanParts(Tail(parts))

\* how the body of the try block ends: a returned value or a thrown error
Returned(value) == [kind |-> "return", value |-> value, error |-> [message |-> None]]
Thrown(err) == [kind |-> "throw", value |-> <<>>, error |-> err]

tryBlock(remote) ==
    IF remote.kind = "raise" THEN Thrown(remote.error[1])
    ELSE LET parts == firstCandidateParts(remote.response[1])
         IN  IF parts = None THEN Thrown([message |-> Some(NoImageMessage)])
             ELSE LET found == scanParts(parts[1])
                  IN  IF found # None THEN Returned(found[1])
                      ELSE Thrown([message |-> Some(NoImageDataMessage)])

\* a promise's end
Resolved(value) == [kind |-> "resolved", value |-> value, message |-> ""]
Rejected(message) == [kind |-> "rejected", value |-> <<>>, message |-> message]

catchKeepsEmpty(err) ==
    Rejected(IF err.message # None THEN err.message[1] ELSE FallbackMessage)

catchDropsMessage(err) == Rejected(FallbackMessage)

\* the catch block: new Error(error.message || fallback)
catchBlock(err) ==
    Rejected(IF err.message # None /\ err.message[1] # "" THEN err.message[1]
             ELSE FallbackMessage)

\* lines 27-48: the outcome of the invocation once the awaited call has ended
adapterOutcome(remote) ==
    LET r == tryBlock(remote)
    IN  IF r.kind = "return" THEN Resolved(r.value) ELSE catchBlock(r.error)

-----------------------------------------------------------------------------
(* editImageWithGemini: one invocation.                                    *)

Pending == [kind |-> "pending", value |-> <<>>, message |-> ""]

\* lines 5-28: everything up to the await runs in the caller's turn, and issues
\* the one generateContent call
invoke(request) ==
    [request |-> request, sent |-> generateContentArgs(request), calls |-> 1,
     pc |-> "awaiting", outcome |-> Pending]

resumeRetrying(inv, remote) ==
    IF adapterOutcome(remote).kind = "rejected" /\ inv.calls < 2
    THEN [inv EXCEPT !.calls = @ + 1]
    ELSE [inv EXCEPT !.pc = "settled", !.outcome = adapterOutcome(remote)]

\* lines 28-48: when the awaited call ends the invocation settles; no path leads
\* back to the call
resume(inv, remote) ==
    [inv EXCEPT !.pc = "settled", !.outcome = adapterOutcome(remote)]

-----------------------------------------------------------------------------
(* The remote API: every shape of answer the adapter distinguishes.        *)

\* the inline images a response may carry: the SDK declares both fields optional
InlineDatas == {[mimeType |-> Some(<<"p">>), data |-> Some(<<"A">>)],
                [mimeType |-> None, data |-> Some(<<"B">>)]}

Parts == {Part(Some("Here is your image."), None)}
             \cup {Part(None, Some(d)) : d \in InlineDatas}

Contents(n) == {None, Some([parts |-> None])}
                   \cup {Some([parts |-> Some(ps)]) : ps \in SeqsUpTo(Parts, n)}

Candidates(n) == [content : Contents(n)]

\* a candidate after the first: the adapter never reads it
OtherCandidate ==
    [content |-> Some([parts |-> Some(<<Part(None, Some([mimeType |-> Some(<<"j">>),
                                                        data |-> Some(<<"B">>)]))>>)])]

\* the responses whose first candidate has at most n parts
Responses(n) ==
    {[candidates |-> None], [candidates |-> Some(<<>>)]}
        \cup {[candidates |-> Some(<<c>> \o rest)] :
                 c \in Candidates(n), rest \in {<<>>, <<OtherCandidate>>}}

\* the errors generateContent raises: objects with a message, an empty message,
\* or no message field
RaisedErrors == {[message |-> m] : m \in {None, Some(""), Some("fetch failed")}}

RemoteResults(n) == {Responded(r) : r \in Responses(n)} \cup {Raised(e) : e \in RaisedErrors}

\* what generateContent may give an invocation made by the shell, and by any caller
ShellRemoteResults == RemoteResults(MaxShellParts)
AdapterRemoteResults == RemoteResults(MaxParts)

-----------------------------------------------------------------------------
(* The shell: App's state and handlers.                                    *)

IDLE == "IDLE"
UPLOADING == "UPLOADING"
PROCESSING == "PROCESSING"
SUCCESS == "SUCCESS"
ERROR == "ERROR"
EditStatus == {IDLE, UPLOADING, PROCESSING, SUCCESS, ERROR}

QUICK_ACTIONS == <<
    [label |-> "Remove Background",
     prompt |-> "Remove the background and make it perfectly transparent or pure white."],
    [label |-> "Studio Clean",
     prompt |-> "Clean up the image, remove any dust or scratches, and add professional studio lighting."],
    [label |-> "Add Shadow",
     prompt |-> "Add a realistic soft contact shadow under the product."],
    [label |-> "Retro Filter",
     prompt |-> "Apply a subtle retro film filter to the photo."],
    [label |-> "E-commerce Ready",
     prompt |-> "Center the product, remove background, and optimize colors for a web shop."] >>

\* the quick actions the user clicks: the five differ only in their texts, which no
\* line of the code inspects, so two stand for all
ClickedActions == {1, 2}

\* the files the user picks: File.type is "" when the browser cannot tell the type
Files == {[type |-> <<"p">>, payload |-> <<"A">>],
          [type |-> <<"j">>, payload |-> <<"B">>],
          [type |-> <<>>, payload |-> <<"A">>]}

\* what the user types into the textarea
TypedPrompts == {"", "make it brighter"}

\* reader.result of readAsDataURL(file)
readAsDataURL(file) ==
    <<"d", "a", "t", "a", ":">> \o file.type
    \o <<";", "b", "a", "s", "e", "6", "4", ",">> \o file.payload

\* !!v for a value that is absent or a string of characters
Truthy(v) == v # None /\ v[1] # <<>>

NoImage == [original |-> None, edited |-> None, mimeType |-> None]

ShellInit ==
    /\ image = NoImage
    /\ status = IDLE
    /\ prompt = ""
    /\ error = None
    /\ zoomScale = 1
    /\ readers = EmptyBag
    /\ clicks = 0
    /\ started = 0

Init ==
    /\ ShellInit
    /\ invocations = EmptyBag
    /\ observed = None

-----------------------------------------------------------------------------
(* The shell's buttons.                                                    *)

\* Button: <button disabled={isLoading || props.disabled} {...props}>. The spread
\* comes last, so a disabled the caller passes replaces the computed attribute.
ButtonDisabled(isLoading, disabled) ==
    IF disabled # None THEN disabled[1] ELSE isLoading

\* the Refine Image button
RefineDisabled ==
    ButtonDisabled(status = PROCESSING, Some(~Truthy(image.original) \/ prompt = ""))

\* a quick-action button
QuickActionDisabled == ~Truthy(image.original) \/ status = PROCESSING

\* the textarea
TextareaDisabled == ~Truthy(image.original) \/ status = PROCESSING

\* Start Over is rendered only next to an edited image, and is never disabled
StartOverShown == Truthy(image.edited)

-----------------------------------------------------------------------------
(* The shell's handlers.                                                   *)

\* handleFileUpload, lines 24-26 and 37: a FileReader starts reading the file
handleFileUpload(file) ==
    /\ BagCardinality(readers) < MaxReads
    /\ readers' = readers (+) SetToBag({file})
    /\ UNCHANGED <<image, status, prompt, error, zoomScale, invocations, observed,
                   clicks, started>>

\* reader.onload, lines 27-36
readerOnload(file) ==
    /\ BagIn(file, readers)
    /\ readers' = readers (-) SetToBag({file})
    /\ image' = [original |-> Some(readAsDataURL(file)), edited |-> None,
                 mimeType |-> Some(file.type)]
    /\ status' = IDLE
    /\ error' = None
    /\ zoomScale' = 1
    /\ UNCHANGED <<prompt, invocations, observed, clicks, started>>

\* the textarea's onChange
handlePromptChange(text) ==
    /\ ~TextareaDisabled
    /\ prompt' = text
    /\ UNCHANGED <<image, status, error, zoomScale, readers, invocations, observed,
                   clicks, started>>

\* processEdit up to its await, lines 41-53: status, error, and the invocation
processEdit(customPrompt) ==
    LET activePrompt == IF customPrompt # None /\ customPrompt[1] # ""
                        THEN customPrompt[1] ELSE prompt
    IN  IF ~Truthy(image.original) \/ activePrompt = "" \/ ~Truthy(image.mimeType)
        THEN UNCHANGED <<status, error, invocations, started>>
        ELSE /\ status' = PROCESSING
             /\ error' = None
             /\ invocations' = invocations (+) SetToBag({invoke(
                    [image |-> image.original[1], mimeType |-> image.mimeType[1],
                     instruction |-> activePrompt])})
             /\ started' = started + 1

\* a click on Refine Image: onClick={() => processEdit()}
RefineClick ==
    /\ ~RefineDisabled
    /\ clicks < MaxClicks
    /\ clicks' = clicks + 1
    /\ processEdit(None)
    /\ UNCHANGED <<image, prompt, zoomScale, readers, observed>>

\* a click on a quick action: setPrompt(action.prompt); processEdit(action.prompt)
QuickActionClick(action) ==
    /\ ~QuickActionDisabled
    /\ clicks < MaxClicks
    /\ clicks' = clicks + 1
    /\ prompt' = action.prompt
    /\ processEdit(Some(action.prompt))
    /\ UNCHANGED <<image, zoomScale, readers, observed>>

\* handleReset, the Start Over button
handleReset ==
    /\ StartOverShown
    /\ image' = NoImage
    /\ prompt' = ""
    /\ status' = IDLE
    /\ error' = None
    /\ zoomScale' = 1
    /\ UNCHANGED <<readers, invocations, observed, clicks, started>>

\* processEdit after its await, lines 54-58
processEditSettles(outcome) ==
    IF outcome.kind = "resolved"
    THEN /\ image' = [image EXCEPT !.edited = Some(outcome.value)]
         /\ status' = SUCCESS
         /\ UNCHANGED error
    ELSE /\ error' = Some(outcome.message)
         /\ status' = ERROR
         /\ UNCHANGED image

\* generateContent ends for an invocation the shell made: the adapter resumes and
\* settles, and processEdit resumes in the same turn
Settle(inv, remote) ==
    /\ BagIn(inv, invocations)
    /\ LET next == resume(inv, remote)
       IN  IF next.pc = "settled"
           THEN /\ invocations' = invocations (-) SetToBag({inv})
                /\ processEditSettles(next.outcome)
           ELSE /\ invocations' = (invocations (-) SetToBag({inv})) (+) SetToBag({next})
                /\ UNCHANGED <<image, status, error>>
    /\ UNCHANGED <<prompt, zoomScale, readers, observed, clicks, started>>

Next ==
    \/ \E file \in Files : handleFileUpload(file)
    \/ \E file \in Files : readerOnload(file)
    \/ \E text \in TypedPrompts : handlePromptChange(text)
    \/ RefineClick
    \/ \E i \in ClickedActions : QuickActionClick(QUICK_ACTIONS[i])
    \/ handleReset
    \/ \E inv \in BagToSet(invocations) : \E remote \in ShellRemoteResults :
           Settle(inv, remote)

Spec == Init /\ [][Next]_vars

-----------------------------------------------------------------------------
(* The adapter on its own: editImageWithGemini called with any request.    *)

ImageChars == {"A", "B", ","}

\* every EditRequest of the bounded sizes: any image string, with or without commas
Requests ==
    [image : SeqsUpTo(ImageChars, MaxLen), mimeType : {<<"p">>},
     instruction : {"Remove background"}]

\* a caller invokes the adapter, once
AdapterCall(request) ==
    /\ invocations = EmptyBag
    /\ observed = None
    /\ invocations' = SetToBag({invoke(request)})
    /\ UNCHANGED observed
    /\ UNCHANGED shellVars

\* generateContent ends: the adapter resumes and settles
AdapterSettle(inv, remote) ==
    /\ BagIn(inv, invocations)
    /\ LET next == resume(inv, remote)
       IN  IF next.pc = "settled"
           THEN /\ invocations' = invocations (-) SetToBag({inv})
                /\ observed' = Some([invocation |-> next, remote |-> remote])
           ELSE /\ invocations' = (invocations (-) SetToBag({inv})) (+) SetToBag({next})
                /\ UNCHANGED observed
    /\ UNCHANGED shellVars

AdapterNext ==
    \/ \E request \in Requests : AdapterCall(request)
    \/ \E inv \in BagToSet(invocations) : \E remote \in AdapterRemoteResults :
           AdapterSettle(inv, remote)

AdapterSpec == Init /\ [][AdapterNext]_vars

-----------------------------------------------------------------------------
(* Properties of the adapter, checked under AdapterSpec.                   *)

\* the settled invocation's request, what generateContent gave it, and its outcome
ObservedRequest == observed[1].invocation.request
ObservedRemote == observed[1].remote
ObservedOutcome == observed[1].invocation.outcome

HasComma(s) == \E i \in 1..Len(s) : s[i] = ","

\* the substring of s strictly after its first comma
AfterFirstComma(s) ==
    LET i == CHOOSE k \in 1..Len(s) : s[k] = "," /\ \A j \in 1..(k - 1) : s[j] # ","
    IN  SubSeq(s, i + 1, Len(s))

IsImagePart(part) == part.inlineData # None

\* the response has a first candidate with content that has a parts list
HasPartsList(response) ==
    /\ response.candidates # None
    /\ Len(response.candidates[1]) >= 1
    /\ response.candidates[1][1].content # None
    /\ response.candidates[1][1].content[1].parts # None

PartsList(response) == response.candidates[1][1].content[1].parts[1]

\* C1: whenever the first candidate's parts hold an inline image, the invocation
\* resolves to "data:" + mime + ";base64," + payload of the first such part in list
\* order, whatever text parts come before it and whatever image parts come after.
C1_FirstImagePartWins ==
    (observed # None /\ ObservedRemote.kind = "response") =>
        LET response == ObservedRemote.response[1]
        IN  (HasPartsList(response) /\ \E i \in 1..Len(PartsList(response)) :
                                          IsImagePart(PartsList(response)[i])) =>
                LET ps == PartsList(response)
                    i == CHOOSE k \in 1..Len(ps) :
                             IsImagePart(ps[k]) /\ \A j \in 1..(k - 1) : ~IsImagePart(ps[j])
                    img == ps[i].inlineData[1]
                IN  ObservedOutcome =
                        Resolved(<<"d", "a", "t", "a", ":">> \o Stringify(img.mimeType)
                                 \o <<";", "b", "a", "s", "e", "6", "4", ",">>
                                 \o Stringify(img.data))

\* a text part, then an image, then a different image: the first image was returned
C1_Witness ==
    /\ observed # None
    /\ ObservedRemote.kind = "response"
    /\ HasPartsList(ObservedRemote.response[1])
    /\ LET ps == PartsList(ObservedRemote.response[1])
       IN  /\ Len(ps) = 3
           /\ ~IsImagePart(ps[1])
           /\ IsImagePart(ps[2])
           /\ IsImagePart(ps[3])
           /\ ps[2] # ps[3]
    /\ ObservedOutcome.kind = "resolved"

\* C2: for every request whose image holds a comma, the payload of the outbound
\* request is the substring of request.image strictly after its first comma.
C2_PayloadIsAfterFirstComma ==
    \A inv \in BagToSet(invocations) :
        HasComma(inv.request.image) =>
            inv.sent.contents.parts[1].inlineData[1].data
                = Some(AfterFirstComma(inv.request.image))

C4_NoImageDataRejected ==
    /\ NoImageDataMessage # NoImageMessage
    /\ (observed # None /\ ObservedRemote.kind = "response") =>
           LET response == ObservedRemote.response[1]
           IN  (/\ HasPartsList(response)
                /\ Len(PartsList(response)) >= 1
                /\ \A i \in 1..Len(PartsList(response)) : ~IsImagePart(PartsList(response)[i]))
                   => ObservedOutcome = Rejected(NoImageDataMessage)

\* a response of text parts only was rejected
C4_Witness ==
    /\ observed # None
    /\ ObservedRemote.kind = "response"
    /\ HasPartsList(ObservedRemote.response[1])
    /\ Len(PartsList(ObservedRemote.response[1])) >= 2
    /\ \A i \in 1..Len(PartsList(ObservedRemote.response[1])) :
           ~IsImagePart(PartsList(ObservedRemote.response[1])[i])
    /\ ObservedOutcome.kind = "rejected"

C6_MalformedInputIsCaught ==
    /\ \A inv \in BagToSet(invocations) :
           /\ HasComma(inv.request.image)
           /\ inv.sent.contents.parts[1].inlineData[1].data # None
    /\ (observed # None /\ ~HasComma(ObservedRequest.image)) =>
           ObservedOutcome.kind = "rejected"

\* C7: an invocation makes exactly one generateContent call: one while it awaits, still
\* one once it has settled, whichever way it settled; and a settled invocation is
\* resolved or rejected and is not in flight again.
C7_OneCallOneOutcome ==
    /\ \A inv \in BagToSet(invocations) :
           inv.calls = 1 /\ inv.pc = "awaiting" /\ inv.outcome = Pending
    /\ observed # None =>
           /\ observed[1].invocation.calls = 1
           /\ observed[1].invocation.pc = "settled"
           /\ ObservedOutcome.kind \in {"resolved", "rejected"}
           /\ invocations = EmptyBag

\* an invocation that was rejected because generateContent raised made one call
C7_Witness ==
    /\ observed # None
    /\ ObservedRemote.kind = "raise"
    /\ ObservedOutcome.kind = "rejected"
    /\ observed[1].invocation.calls = 1
    /\ invocations = EmptyBag

-----------------------------------------------------------------------------
(* Properties of the shell, checked under Spec.                            *)

\* C8: at most one invocation is in flight.
C8_AtMostOneInFlight == BagCardinality(invocations) <= 1

\* C9: every enabled Refine Image or quick-action click has started exactly one
\* invocation.
C9_EveryClickInvokesOnce == started = clicks

\* in the state a rejection leaves, a retry by click is enabled and starts an
\* invocation
RetryStarts ==
    /\ ~QuickActionDisabled \/ ~RefineDisabled
    /\ Truthy(image.original)
    /\ Truthy(image.mimeType)

\* C10: when an invocation rejects, the shell starts no invocation of its own, sets
\* status to ERROR and error to the rejection's message, leaves image as it was, and
\* a click in that state starts a new invocation.
C10_RejectionAllowsRetry ==
    [][\A inv \in BagToSet(invocations) : \A remote \in ShellRemoteResults :
           (Settle(inv, remote) /\ adapterOutcome(remote).kind = "rejected") =>
               /\ status' = ERROR
               /\ error' = Some(adapterOutcome(remote).message)
               /\ image' = image
               /\ started' = started
               /\ BagCardinality(invocations') = BagCardinality(invocations) - 1
               /\ RetryStarts']_vars

\* C11: a non-null image.edited is the result of an invocation whose request image
\* is the current image.original: a completion installs its result only next to the
\* original it was made for, and the original does not change under an edited image.
C11_EditedBelongsToOriginal ==
    [][/\ \A inv \in BagToSet(invocations) : \A remote \in ShellRemoteResults :
              (Settle(inv, remote) /\ adapterOutcome(remote).kind = "resolved") =>
                  /\ image'.edited = Some(adapterOutcome(remote).value)
                  /\ image'.original = Some(inv.request.image)
       /\ (image'.edited # None /\ image'.original # image.original) =>
              image'.edited # image.edited]_vars

\* C12: the status flag agrees with the rest of the state: status SUCCESS implies
\* that image.edited is non-null and error is null, and error is non-null only when
\* status is ERROR.
C12_StatusAgreesWithState ==
    /\ status = SUCCESS => (image.edited # None /\ error = None)
    /\ error # None => status = ERROR

=============================================================================
